---- MODULE Spec2Model ----
(***************************************************************************)
(* The view state machine of the language-learning client (App) and the    *)
(* Model Gateway (geminiService) it calls.                                 *)
(*                                                                         *)
(* One step of the model is one turn of the single JavaScript control      *)
(* flow: a user event handler run up to its first await, or the            *)
(* continuation of a handler after the backend call it awaits has settled. *)
(* The state updates of one turn are committed together (React batches     *)
(* them and no other event can run in between), and the effect on          *)
(* activePage runs in the same turn as the commit that changed the page.   *)
(* A render that throws unmounts the tree (there is no error boundary):    *)
(* from then on no user event reaches a handler, while the continuations   *)
(* of the calls in flight still run and call their setters.                *)
(***************************************************************************)
EXTENDS Integers, Sequences, FiniteSets

(***************************************************************************)
(* Bounds of the model.                                                    *)
(***************************************************************************)
\* Number of seeded vocabulary words kept (the code seeds five).
VocabSize == 2
\* Longest review dialogue the backend returns.
MaxDialogueLen == 3
\* Longest recommendation list the backend returns.
MaxRecLen == 2
\* Most etymology components the backend returns.
MaxComponents == 2
\* Most Model Gateway operations in flight at once.
MaxInflight == 2
\* Most turns kept in the chat history.
MaxChat == 4

(***************************************************************************)
(* Values.                                                                 *)
(***************************************************************************)
Pages ==
  {"recommendation", "etymology", "vocabulary", "dialogue", "translation",
   "recognition"}

Null == [isNull |-> TRUE]

NoWord == "none"

NoImage == "noimage"

SeedVocabulary == <<"fapiao", "dengjipai", "maodun", "neijuan", "kafei">>

InitialVocabulary ==
  [i \in 1..VocabSize |-> [word |-> SeedVocabulary[i], isSelected |-> TRUE]]

VARIABLES
  activePage,        \* useState<PageType>
  nativeLang,        \* useState('English')
  level,             \* useState('HSK 3')
  loading,           \* useState(false)
  recommendedWords,  \* useState<Word[]>([])
  currentEtymology,  \* useState<{word, data} | null>
  vocabulary,        \* useState<Word[]>: sequence of [word, isSelected]
  reviewData,        \* useState<any>(null): Null or [dialogue |-> lines]
  reviewAnswers,     \* useState<Record<number, string>>: line index -> word
  reviewStep,        \* useState(0), a 0-based line index
  chatHistory,       \* useState<{role, text}[]>
  imageResult,       \* useState<string | null>
  capturedImage,     \* useState<string | null>
  inflight,          \* the Model Gateway operations awaiting the backend
  unhandled,         \* a rejected promise escaped an async handler
  crashed,           \* a render threw: the tree is unmounted, no handler left
  event              \* the record of the turn that ran last

vars ==
  <<activePage, nativeLang, level, loading, recommendedWords, currentEtymology,
    vocabulary, reviewData, reviewAnswers, reviewStep, chatHistory, imageResult,
    capturedImage, inflight, unhandled, crashed, event>>

\* The state the component holds (everything but the model's bookkeeping).
appState ==
  <<activePage, nativeLang, level, loading, recommendedWords, currentEtymology,
    vocabulary, reviewData, reviewAnswers, reviewStep, chatHistory, imageResult,
    capturedImage>>

\* The record of a turn also keeps, while etymology fetches are in flight
\* and in the state their last one leaves, the latest word an etymology
\* was requested for and how that request settled.
NoRequest == [word |-> NoWord, settled |-> "none"]

EtymCalls == {k \in 1..Len(inflight) : inflight[k].kind = "etym"}

Carry == IF EtymCalls = {} THEN NoRequest ELSE event.req

Event(op, line, word, resp) ==
  [op |-> op, line |-> line, word |-> word, resp |-> resp, req |-> Carry]

Ev(op) == Event(op, 0, NoWord, "none")

EvResp(op, resp) == Event(op, 0, NoWord, resp)

\* The latest request after call k has settled: it is call k when it was
\* pending and no etymology call was requested after call k; a request
\* that failed is no longer kept.
Settled(k, how) ==
  IF event.req.settled = "pending" /\ \A j \in EtymCalls : j <= k
    THEN IF how = "done" THEN [word |-> event.req.word, settled |-> "done"]
                         ELSE NoRequest
    ELSE event.req

(***************************************************************************)
(* Operations in flight.  A call record keeps what the suspended closure   *)
(* captured: the arguments of the gateway operation, the parsed primary    *)
(* result (data) while its dependent image calls run, and the index idx of *)
(* the item whose image call is awaited (0: the primary call is awaited).  *)
(***************************************************************************)
Call(kind) ==
  [kind |-> kind, lang |-> "", level |-> "", word |-> NoWord, selected |-> <<>>,
   history |-> <<>>, val |-> "", img |-> NoImage, data |-> <<>>, idx |-> 0]

Remove(s, k) == SubSeq(s, 1, k - 1) \o SubSeq(s, k + 1, Len(s))

Replace(s, k, c) == [s EXCEPT ![k] = c]

CanIssue == Len(inflight) < MaxInflight

(***************************************************************************)
(* What the backend can answer to a primary call: the transport fails, or  *)
(* a response arrives whose text is absent, is not JSON, or is JSON.       *)
(***************************************************************************)
Unreachable == [net |-> "unreachable", text |-> "none", json |-> <<>>]

AbsentText == [net |-> "ok", text |-> "absent", json |-> <<>>]

NotJson == [net |-> "ok", text |-> "garbage", json |-> <<>>]

Json(v) == [net |-> "ok", text |-> "json", json |-> v]

\* How a response is classified in the record of the turn.
RespKind(resp) == IF resp.net = "unreachable" THEN "unreachable" ELSE resp.text

\* await ai.models.generateContent(...) followed by
\* JSON.parse(response.text || dflt): the awaited call rejects, the parse
\* throws, or a value results.
ParseOr(resp, dflt) ==
  IF resp.net = "unreachable" THEN [threw |-> TRUE, value |-> dflt]
  ELSE IF resp.text = "absent" THEN [threw |-> FALSE, value |-> dflt]
  ELSE IF resp.text = "garbage" THEN [threw |-> TRUE, value |-> dflt]
  ELSE [threw |-> FALSE, value |-> resp.json]

(***************************************************************************)
(* Recommendation.                                                         *)
(***************************************************************************)
\* The words the backend recommends from; the second one carries a
\* proficiency outside 0..100, which the response schema does not exclude.
Catalogue ==
  <<[word |-> "ni", proficiency |-> 45], [word |-> "hao", proficiency |-> 150],
    [word |-> "ma", proficiency |-> 0], [word |-> "shi", proficiency |-> 100]>>

RecLists == {SubSeq(Catalogue, 1, n) : n \in 0..MaxRecLen}

RecResponses == {Unreachable, AbsentText, NotJson} \cup {Json(l) : l \in RecLists}

\* getVocabularyRecommendations: JSON.parse(response.text || "[]").
getVocabularyRecommendations(resp) == ParseOr(resp, <<>>)

\* fetchRecommendations up to its await.
fetchRecommendations ==
  /\ loading' = TRUE
  /\ inflight' =
       Append(inflight, [Call("rec") EXCEPT !.lang = nativeLang, !.level = level])

\* The effect without the test on the length of the list.
EffectFetchesAlways(p, words) ==
  /\ p # activePage
  /\ p = "recommendation"

\* The effect on [activePage], run after a commit that set the page to p.
\* It reads recommendedWords of that render.
EffectFetches(p, words) ==
  /\ p # activePage
  /\ p = "recommendation"
  /\ Len(words) = 0

\* The continuation calling the gateway again from its catch block.
RecRespondRetry(responses) ==
  \E k \in 1..Len(inflight), resp \in responses :
    /\ inflight[k].kind = "rec"
    /\ LET r == getVocabularyRecommendations(resp) IN
         /\ recommendedWords' = IF r.threw THEN recommendedWords ELSE r.value
         /\ event' = EvResp(IF r.threw THEN "recFailed" ELSE "recDone", RespKind(resp))
         /\ loading' = r.threw
         /\ inflight' = IF r.threw THEN inflight ELSE Remove(inflight, k)
    /\ UNCHANGED <<activePage, nativeLang, level, currentEtymology, vocabulary,
                   reviewData, reviewAnswers, reviewStep, chatHistory,
                   imageResult, capturedImage, unhandled, crashed>>

\* The continuation whose catch path leaves the loading flag as it is.
RecRespondKeepsLoading(responses) ==
  \E k \in 1..Len(inflight), resp \in responses :
    /\ inflight[k].kind = "rec"
    /\ LET r == getVocabularyRecommendations(resp) IN
         /\ recommendedWords' = IF r.threw THEN recommendedWords ELSE r.value
         /\ event' = EvResp(IF r.threw THEN "recFailed" ELSE "recDone", RespKind(resp))
         /\ loading' = IF r.threw THEN loading ELSE FALSE
    /\ inflight' = Remove(inflight, k)
    /\ UNCHANGED <<activePage, nativeLang, level, currentEtymology, vocabulary,
                   reviewData, reviewAnswers, reviewStep, chatHistory,
                   imageResult, capturedImage, unhandled, crashed>>

\* fetchRecommendations after its await: try / catch / finally.
RecRespond(responses) ==
  \E k \in 1..Len(inflight), resp \in responses :
    /\ inflight[k].kind = "rec"
    /\ LET r == getVocabularyRecommendations(resp) IN
         /\ recommendedWords' = IF r.threw THEN recommendedWords ELSE r.value
         /\ event' = EvResp(IF r.threw THEN "recFailed" ELSE "recDone", RespKind(resp))
    /\ loading' = FALSE
    /\ inflight' = Remove(inflight, k)
    /\ UNCHANGED <<activePage, nativeLang, level, currentEtymology, vocabulary,
                   reviewData, reviewAnswers, reviewStep, chatHistory,
                   imageResult, capturedImage, unhandled, crashed>>

\* The refresh button of the recommendation page.
RefreshClick ==
  /\ ~crashed
  /\ activePage = "recommendation"
  /\ CanIssue
  /\ fetchRecommendations
  /\ event' = Ev("refresh")
  /\ UNCHANGED <<activePage, nativeLang, level, recommendedWords,
                 currentEtymology, vocabulary, reviewData, reviewAnswers,
                 reviewStep, chatHistory, imageResult, capturedImage, unhandled,
                 crashed>>

(***************************************************************************)
(* Navigation.                                                             *)
(***************************************************************************)
\* A click in the bottom navigation: setActivePage(p), then the effect.
Nav(p) ==
  /\ ~crashed
  /\ activePage' = p
  /\ IF EffectFetches(p, recommendedWords)
       THEN CanIssue /\ fetchRecommendations
       ELSE UNCHANGED <<loading, inflight>>
  /\ event' = Ev("nav")
  /\ UNCHANGED <<nativeLang, level, recommendedWords, currentEtymology,
                 vocabulary, reviewData, reviewAnswers, reviewStep, chatHistory,
                 imageResult, capturedImage, unhandled, crashed>>

Navigate(pages) == \E p \in pages : Nav(p)

(***************************************************************************)
(* Initial state: the first render has committed and its effect has run,   *)
(* so the first recommendation fetch is in flight.                         *)
(***************************************************************************)
Init ==
  /\ activePage = "recommendation"
  /\ nativeLang = "English"
  /\ level = "HSK 3"
  /\ loading = TRUE
  /\ recommendedWords = <<>>
  /\ currentEtymology = Null
  /\ vocabulary = InitialVocabulary
  /\ reviewData = Null
  /\ reviewAnswers = [i \in {} |-> NoWord]
  /\ reviewStep = 0
  /\ chatHistory = <<>>
  /\ imageResult = Null
  /\ capturedImage = NoImage
  /\ inflight = <<[Call("rec") EXCEPT !.lang = "English", !.level = "HSK 3"]>>
  /\ unhandled = FALSE
  /\ crashed = FALSE
  /\ event = [op |-> "mount", line |-> 0, word |-> NoWord, resp |-> "none",
              req |-> NoRequest]

(***************************************************************************)
(* Vocabulary page and targeted review.                                    *)
(***************************************************************************)
\* The word pool without the filter on the selection flag.
SelectAllWords(vocab) == [n \in 1..Len(vocab) |-> vocab[n].word]

\* vocabulary.filter(w => w.isSelected).map(w => w.word)
SelectSeqWords(vocab) ==
  LET F[n \in 0..Len(vocab)] ==
        IF n = 0 THEN <<>>
        ELSE IF vocab[n].isSelected THEN Append(F[n - 1], vocab[n].word)
        ELSE F[n - 1]
  IN F[Len(vocab)]

Selected == SelectSeqWords(vocabulary)

Range(s) == {s[j] : j \in 1..Len(s)}

\* toggleWordSelection(index)
ToggleWordSelection ==
  \E n \in 1..Len(vocabulary) :
    /\ ~crashed
    /\ activePage = "vocabulary"
    /\ vocabulary' =
         [vocabulary EXCEPT ![n].isSelected = ~vocabulary[n].isSelected]
    /\ event' = Ev("toggle")
    /\ UNCHANGED <<activePage, nativeLang, level, loading, recommendedWords,
                   currentEtymology, reviewData, reviewAnswers, reviewStep,
                   chatHistory, imageResult, capturedImage, inflight, unhandled,
                   crashed>>

\* The lines a review dialogue is made of.
Line(speaker, blankWord, prompt) ==
  [speaker |-> speaker, blankWord |-> blankWord, hintImagePrompt |-> prompt,
   hintImageUrl |-> FALSE]

\* Lines without a hint-image prompt: an assistant line and an exercise
\* line whose blank is the first vocabulary word.
PlainLines ==
  {Line("Xiao Tong", NoWord, FALSE), Line("User", SeedVocabulary[1], FALSE)}

SeqsUpTo(S, n) == UNION {[1..m -> S] : m \in 0..n}

PlainDialogues == SeqsUpTo(PlainLines, MaxDialogueLen)

\* The primary responses to getReviewDialogue over a set of dialogues; a
\* JSON object may lack the dialogue key.
ReviewValue(has, d) == [hasDialogue |-> has, dialogue |-> d]

ReviewResponses(dialogues) ==
  {Unreachable, AbsentText, NotJson, Json(ReviewValue(FALSE, <<>>))} \cup
  {Json(ReviewValue(TRUE, d)) : d \in dialogues}

\* The loop generating a hint image for every line.
NextHintEveryLine(d, n) == IF n <= Len(d) THEN n ELSE 0

\* The first line from index n on for which a hint image is generated
\* (line.blankWord && line.hintImagePrompt), or 0.
NextHint(d, n) ==
  LET todo == {j \in n..Len(d) :
                 d[j].blankWord # NoWord /\ d[j].hintImagePrompt}
  IN IF todo = {} THEN 0 ELSE CHOOSE j \in todo : \A h \in todo : j <= h

\* startTargetedReview without its early return.
startTargetedReviewNoReturn ==
  /\ loading' = TRUE
  /\ inflight' = Append(inflight, [Call("review") EXCEPT !.selected = Selected])

\* startTargetedReview; the early return leaves every state untouched.
startTargetedReview ==
  IF Len(Selected) = 0
    THEN UNCHANGED <<loading, inflight>>
    ELSE /\ loading' = TRUE
         /\ inflight' = Append(inflight, [Call("review") EXCEPT !.selected = Selected])

\* The disabled attribute without the loading flag.
ReviewStartDisabledNoLoading == Len(Selected) = 0

\* disabled={loading || vocabulary.filter(w => w.isSelected).length === 0}
ReviewStartDisabled == loading \/ Len(Selected) = 0

\* The review-start button of the vocabulary page.
ReviewStartClick ==
  /\ ~crashed
  /\ activePage = "vocabulary"
  /\ ~ReviewStartDisabled
  /\ CanIssue
  /\ startTargetedReview
  /\ event' = Ev("startReview")
  /\ UNCHANGED <<activePage, nativeLang, level, recommendedWords,
                 currentEtymology, vocabulary, reviewData, reviewAnswers,
                 reviewStep, chatHistory, imageResult, capturedImage, unhandled,
                 crashed>>

\* The continuation storing the dialogue without resetting the answers
\* and the step index.
ReviewResolvedKeeps(k, data, resp) ==
  /\ reviewData' = [dialogue |-> data]
  /\ activePage' = "dialogue"
  /\ loading' = FALSE
  /\ inflight' = Remove(inflight, k)
  /\ event' = EvResp("reviewDone", resp)
  /\ UNCHANGED <<nativeLang, level, recommendedWords, currentEtymology,
                 vocabulary, reviewAnswers, reviewStep, chatHistory,
                 imageResult, capturedImage, unhandled, crashed>>

\* startTargetedReview after its await resolved with data.
ReviewResolved(k, data, resp) ==
  /\ reviewData' = [dialogue |-> data]
  /\ reviewAnswers' = [i \in {} |-> NoWord]
  /\ reviewStep' = 0
  /\ activePage' = "dialogue"
  /\ loading' = FALSE
  /\ inflight' = Remove(inflight, k)
  /\ event' = EvResp("reviewDone", resp)
  /\ UNCHANGED <<nativeLang, level, recommendedWords, currentEtymology,
                 vocabulary, chatHistory, imageResult, capturedImage, unhandled,
                 crashed>>

\* startTargetedReview after its await rejected: catch, finally.
ReviewRejected(k, resp) ==
  /\ loading' = FALSE
  /\ inflight' = Remove(inflight, k)
  /\ event' = EvResp("reviewFailed", resp)
  /\ UNCHANGED <<activePage, nativeLang, level, recommendedWords,
                 currentEtymology, vocabulary, reviewData, reviewAnswers,
                 reviewStep, chatHistory, imageResult, capturedImage, unhandled,
                 crashed>>

\* getReviewDialogue after its primary call: JSON.parse(response.text ||
\* "{}"), then the loop over data.dialogue, which throws when the key is
\* missing and suspends on the first hint-image call.
ReviewRespond(dialogues) ==
  \E k \in 1..Len(inflight), resp \in ReviewResponses(dialogues) :
    /\ inflight[k].kind = "review"
    /\ inflight[k].idx = 0
    /\ LET r == ParseOr(resp, ReviewValue(FALSE, <<>>)) IN
         IF r.threw \/ ~r.value.hasDialogue
           THEN ReviewRejected(k, RespKind(resp))
           ELSE LET d == r.value.dialogue
                    h == NextHint(d, 1)
                IN IF h = 0
                     THEN ReviewResolved(k, d, RespKind(resp))
                     ELSE /\ inflight' =
                               Replace(inflight, k,
                                       [inflight[k] EXCEPT !.data = d, !.idx = h])
                          /\ event' = EvResp("reviewPrimary", RespKind(resp))
                          /\ UNCHANGED <<appState, unhandled, crashed>>

\* One hint-image call of getReviewDialogue settles: the image is attached
\* when a part carries inline data; a failure is caught and logged.
ReviewHintRespond ==
  \E k \in 1..Len(inflight), outcome \in {"image", "noimage", "failed"} :
    /\ inflight[k].kind = "review"
    /\ inflight[k].idx > 0
    /\ LET c == inflight[k]
           d == [c.data EXCEPT ![c.idx].hintImageUrl = (outcome = "image")]
           h == NextHint(d, c.idx + 1)
       IN IF h = 0
            THEN ReviewResolved(k, d, outcome)
            ELSE /\ inflight' =
                      Replace(inflight, k, [c EXCEPT !.data = d, !.idx = h])
                 /\ event' = EvResp("reviewHint", outcome)
                 /\ UNCHANGED <<appState, unhandled, crashed>>

\* The page rendering every line of the dialogue.
ShownLinesAll ==
  {i \in 0..(Len(reviewData.dialogue) - 1) : TRUE}

\* The lines the dialogue page renders: reviewData.dialogue.slice(0,
\* reviewStep + 1), as 0-based indices.
ShownLines ==
  {i \in 0..reviewStep : i < Len(reviewData.dialogue)}

\* line.speaker === 'User' && line.blankWord
IsExercise(line) == line.speaker = "User" /\ line.blankWord # NoWord

\* The onClick without the cap at the last line.
AnswerOnClickNoCap(i, w) ==
  LET line == reviewData.dialogue[i + 1] IN
    /\ reviewAnswers' =
         [j \in DOMAIN reviewAnswers \cup {i} |->
            IF j = i THEN w ELSE reviewAnswers[j]]
    /\ reviewStep' = IF w = line.blankWord THEN reviewStep + 1 ELSE reviewStep

\* The onClick moving to the line after the one answered.
AnswerOnClickJump(i, w) ==
  LET line == reviewData.dialogue[i + 1] IN
    /\ reviewAnswers' =
         [j \in DOMAIN reviewAnswers \cup {i} |->
            IF j = i THEN w ELSE reviewAnswers[j]]
    /\ reviewStep' =
         IF w = line.blankWord /\ i < Len(reviewData.dialogue) - 1
           THEN i + 1
           ELSE reviewStep

\* The onClick of an answer button: line index i, vocabulary word w.
AnswerOnClick(i, w) ==
  LET line == reviewData.dialogue[i + 1] IN
    /\ reviewAnswers' =
         [j \in DOMAIN reviewAnswers \cup {i} |->
            IF j = i THEN w ELSE reviewAnswers[j]]
    /\ reviewStep' =
         IF w = line.blankWord /\ reviewStep < Len(reviewData.dialogue) - 1
           THEN reviewStep + 1
           ELSE reviewStep

\* A click on one of the answer buttons rendered under a shown exercise
\* line; the choices are the currently selected vocabulary words.
AnswerClick ==
  /\ ~crashed
  /\ activePage = "dialogue"
  /\ reviewData # Null
  /\ \E i \in ShownLines, w \in Range(Selected) :
       /\ IsExercise(reviewData.dialogue[i + 1])
       /\ AnswerOnClick(i, w)
       /\ event' = Event("answer", i, w, "none")
  /\ UNCHANGED <<activePage, nativeLang, level, loading, recommendedWords,
                 currentEtymology, vocabulary, reviewData, chatHistory,
                 imageResult, capturedImage, inflight, unhandled, crashed>>

\* The speaker button of a shown assistant line: playTTS(line.text) up to
\* its await.  The loading flag is not touched.
PlayTTSClick ==
  /\ ~crashed
  /\ activePage = "dialogue"
  /\ reviewData # Null
  /\ \E i \in ShownLines : reviewData.dialogue[i + 1].speaker = "Xiao Tong"
  /\ CanIssue
  /\ inflight' = Append(inflight, Call("tts"))
  /\ event' = Ev("playTTS")
  /\ UNCHANGED <<appState, unhandled, crashed>>

\* playTTS after its await: the audio is played when the backend sent
\* some, a failure is caught and logged; no state is set.
TtsRespond ==
  \E k \in 1..Len(inflight), outcome \in {"audio", "noaudio", "unreachable"} :
    /\ inflight[k].kind = "tts"
    /\ inflight' = Remove(inflight, k)
    /\ event' = EvResp(IF outcome = "unreachable" THEN "ttsFailed" ELSE "ttsDone", outcome)
    /\ UNCHANGED <<appState, unhandled, crashed>>

\* The button rendered at every step of the review.
ExitReviewAnywhere ==
  /\ ~crashed
  /\ activePage = "dialogue"
  /\ reviewData # Null
  /\ reviewData' = Null
  /\ event' = Ev("exitReview")
  /\ UNCHANGED <<activePage, nativeLang, level, loading, recommendedWords,
                 currentEtymology, vocabulary, reviewAnswers, reviewStep,
                 chatHistory, imageResult, capturedImage, inflight, unhandled,
                 crashed>>

\* The "back to free chat" button, rendered when
\* reviewStep === reviewData.dialogue.length - 1.
ExitReview ==
  /\ ~crashed
  /\ activePage = "dialogue"
  /\ reviewData # Null
  /\ reviewStep = Len(reviewData.dialogue) - 1
  /\ reviewData' = Null
  /\ event' = Ev("exitReview")
  /\ UNCHANGED <<activePage, nativeLang, level, loading, recommendedWords,
                 currentEtymology, vocabulary, reviewAnswers, reviewStep,
                 chatHistory, imageResult, capturedImage, inflight, unhandled,
                 crashed>>

(***************************************************************************)
(* Specification of the vocabulary and review pages.                       *)
(***************************************************************************)
\* The pages the user visits here, and the answers to the first
\* recommendation fetch.
ReviewPages == {"recommendation", "vocabulary", "dialogue"}

ReviewRecResponses == {Unreachable, Json(SubSeq(Catalogue, 1, 1))}

NextReview ==
  \/ Navigate(ReviewPages)
  \/ RecRespond(ReviewRecResponses)
  \/ ToggleWordSelection
  \/ ReviewStartClick
  \/ ReviewRespond(PlainDialogues)
  \/ AnswerClick
  \/ ExitReview
  \/ PlayTTSClick
  \/ TtsRespond

SpecReview == Init /\ [][NextReview]_vars

\* startTargetedReview called as a function, whatever the disabled
\* attribute of its button says.
InvokeStartTargetedReview ==
  /\ ~crashed
  /\ Len(Selected) = 0 \/ CanIssue
  /\ startTargetedReview
  /\ event' = Ev("invokeStartReview")
  /\ UNCHANGED <<activePage, nativeLang, level, recommendedWords,
                 currentEtymology, vocabulary, reviewData, reviewAnswers,
                 reviewStep, chatHistory, imageResult, capturedImage, unhandled,
                 crashed>>

NextInvoke ==
  \/ Navigate(ReviewPages)
  \/ RecRespond(ReviewRecResponses)
  \/ ToggleWordSelection
  \/ ReviewStartClick
  \/ ReviewRespond(PlainDialogues)
  \/ InvokeStartTargetedReview

SpecInvoke == Init /\ [][NextInvoke]_vars

(***************************************************************************)
(* Properties of the review.                                               *)
(***************************************************************************)
LastLine == Len(reviewData.dialogue) - 1

\* C1: whenever a review session is active (reviewData is non-null), the
\* step index lies within 0 .. length(dialogue) - 1.
C1_StepWithinDialogue ==
  reviewData # Null => (0 <= reviewStep /\ reviewStep <= LastLine)

\* The same bound for the sessions whose dialogue has at least one line.
StepWithinNonEmptyDialogue ==
  (reviewData # Null /\ Len(reviewData.dialogue) > 0) =>
    (0 <= reviewStep /\ reviewStep <= LastLine)

\* C2: the step index increments only on a submission made on the line at
\* the current step index whose word equals that line's blank target; a
\* submission on an earlier line never advances it.
C2_AdvanceOnlyOnCurrentLine ==
  [][reviewStep' > reviewStep =>
       /\ event'.op = "answer"
       /\ reviewData # Null
       /\ event'.line = reviewStep
       /\ event'.word = reviewData.dialogue[reviewStep + 1].blankWord]_vars

\* C3: a submission of word w on the current line advances the step index
\* by exactly one when w is the line's blank target and the line is not the
\* last one, and leaves it unchanged otherwise; in every case the answer
\* recorded for that line becomes w and no other recorded answer changes.
C3_AnswerOnCurrentLine ==
  [][(event'.op = "answer" /\ event'.line = reviewStep) =>
       LET i == event'.line
           w == event'.word
           target == reviewData.dialogue[i + 1].blankWord
       IN /\ reviewStep' =
               IF w = target /\ reviewStep < LastLine
                 THEN reviewStep + 1
                 ELSE reviewStep
          /\ DOMAIN reviewAnswers' = DOMAIN reviewAnswers \cup {i}
          /\ reviewAnswers'[i] = w
          /\ \A j \in DOMAIN reviewAnswers \ {i} :
               reviewAnswers'[j] = reviewAnswers[j]]_vars

\* A correct answer on the last line has been recorded after a wrong one on
\* it, the step index staying capped.
C3_Witness ==
  /\ event.op = "answer"
  /\ reviewData # Null
  /\ event.line = reviewStep
  /\ reviewStep = LastLine
  /\ reviewStep >= 1
  /\ event.word = reviewData.dialogue[reviewStep + 1].blankWord
  /\ reviewAnswers[reviewStep] = event.word

\* C4: within one review session (no step that creates a session, the
\* session present before and after the step) the step index never
\* decreases.
C4_StepNeverDecreases ==
  [][(reviewData # Null /\ reviewData' # Null /\ event'.op # "reviewDone") =>
       reviewStep' >= reviewStep]_vars

\* A session whose step index has advanced twice, with an earlier exercise
\* line answered again afterwards.
C4_Witness ==
  /\ reviewData # Null
  /\ reviewStep >= 2
  /\ event.op = "answer"
  /\ event.line = 0

\* C5: startTargetedReview invoked while no vocabulary word is selected
\* issues no gateway call and changes no state of the component.
C5_NoSelectionNoOp ==
  [][(event'.op \in {"startReview", "invokeStartReview"} /\ Len(Selected) = 0) =>
       UNCHANGED <<appState, inflight, unhandled, crashed>>]_vars

\* startTargetedReview has been invoked with no word selected.
C5_Witness ==
  /\ event.op = "invokeStartReview"
  /\ Len(Selected) = 0
  /\ activePage = "vocabulary"

\* The indices of the vocabulary words whose selection flag is set.
Picked == {n \in 1..Len(vocabulary) : vocabulary[n].isSelected}

\* C15: starting a targeted review passes to the dialogue-generation call
\* exactly the vocabulary words whose selection flag is set at the moment
\* of the click, in vocabulary order, and no other word.
C15_SelectedPoolSent ==
  [][/\ event'.op = "startReview" => Len(inflight') = Len(inflight) + 1
     /\ (event'.op \in {"startReview", "invokeStartReview"}
           /\ Len(inflight') > Len(inflight)) =>
          LET call == inflight'[Len(inflight')]
              pool == call.selected
          IN /\ call.kind = "review"
             /\ Len(pool) = Cardinality(Picked)
             /\ \A n \in Picked : \E j \in 1..Len(pool) : pool[j] = vocabulary[n].word
             /\ \A j \in 1..Len(pool) : \E n \in Picked : pool[j] = vocabulary[n].word
             /\ \A i, j \in 1..Len(pool) :
                  i < j =>
                    \E m, n \in Picked :
                      /\ m < n
                      /\ vocabulary[m].word = pool[i]
                      /\ vocabulary[n].word = pool[j]]_vars

\* A review has been started with the first word deselected and the
\* second one selected.
C15_Witness ==
  /\ event.op = "startReview"
  /\ ~vocabulary[1].isSelected
  /\ vocabulary[2].isSelected
  /\ inflight # <<>>
  /\ inflight[Len(inflight)].selected = <<SeedVocabulary[2]>>

\* A review has been started with two words selected.
C15_WitnessOrder ==
  /\ event.op = "startReview"
  /\ inflight # <<>>
  /\ inflight[Len(inflight)].selected = <<SeedVocabulary[1], SeedVocabulary[2]>>

\* C18: while the loading flag is true, and whenever no word is selected,
\* the review-start trigger is disabled: no review fetch is started by it
\* in a state where loading is true or nothing is selected.
C18_ReviewStartGated ==
  [][event'.op = "startReview" =>
       /\ ~loading
       /\ Len(Selected) > 0
       /\ \E n \in 1..Len(vocabulary) : vocabulary[n].isSelected]_vars

\* A review has been started from the vocabulary page; the flag it set
\* alone now keeps the trigger disabled.
C18_Witness ==
  /\ event.op = "startReview"
  /\ activePage = "vocabulary"
  /\ loading
  /\ Len(Selected) > 0
  /\ CanIssue

NoAnswers == [i \in {} |-> NoWord]

\* Review mode is entered only by a successful review fetch that was
\* started with at least one selected word.
EnteredByReviewFetch ==
  (reviewData' # reviewData /\ reviewData' # Null) =>
    /\ event'.op = "reviewDone"
    /\ \E k \in 1..Len(inflight) :
         /\ inflight[k].kind = "review"
         /\ Len(inflight[k].selected) >= 1
         /\ inflight' = Remove(inflight, k)

\* C19 as stated: review mode is entered only by a successful review
\* fetch started with at least one selected word; exiting leaves the
\* dialogue page in free chat and discards the dialogue, the step index
\* and the answer mapping.
C19_ExitDiscardsSession ==
  [][/\ EnteredByReviewFetch
     /\ event'.op = "exitReview" =>
          /\ activePage' = "dialogue"
          /\ reviewData' = Null
          /\ reviewStep' = 0
          /\ reviewAnswers' = NoAnswers]_vars

\* C19 as amended: review mode is entered only by a successful review
\* fetch started with at least one selected word; exiting leaves the
\* dialogue page in free chat and discards the dialogue, while the step
\* index and the answer mapping stay as they are until the next successful
\* review fetch replaces them with 0 and the empty mapping, in the step
\* that makes the new session visible.
C19_ExitLeavesNothingObservable ==
  [][/\ EnteredByReviewFetch
     /\ event'.op = "exitReview" =>
          /\ activePage' = "dialogue"
          /\ reviewData' = Null
          /\ UNCHANGED <<reviewStep, reviewAnswers>>
     /\ event'.op = "reviewDone" =>
          /\ reviewData' # Null
          /\ reviewStep' = 0
          /\ reviewAnswers' = NoAnswers
     /\ (reviewData = Null /\ event'.op # "reviewDone") =>
          /\ reviewData' = Null
          /\ UNCHANGED <<reviewStep, reviewAnswers>>]_vars

\* A session with recorded answers and an advanced step index has just
\* been exited.
C19_Witness ==
  /\ event.op = "exitReview"
  /\ activePage = "dialogue"
  /\ reviewData = Null
  /\ reviewStep >= 1
  /\ reviewAnswers # NoAnswers

\* The answer choices rendered under an exercise line:
\* vocabulary.filter(w => w.isSelected).
Choices == Range(Selected)

\* C26: in every state with an active review the answer choices are the
\* words that were sent to the call that produced the session: they are
\* the pool of that call when the session starts and do not change while
\* the session lasts.
C26_ChoicesArePoolSent ==
  [][/\ event'.op = "reviewDone" =>
          \E k \in 1..Len(inflight) :
            /\ inflight[k].kind = "review"
            /\ inflight' = Remove(inflight, k)
            /\ Choices' = Range(inflight[k].selected)
     /\ (reviewData # Null /\ reviewData' # Null /\ event'.op # "reviewDone") =>
          Choices' = Choices]_vars

\* C27: the step index changes only through an answer click on a
\* displayed exercise line (index <= step index, speaker User, with a
\* blank target); a completing review fetch aside, which starts a new
\* session, nothing else changes it, so a review none of whose displayed
\* lines is an exercise line stays at its step index.
C27_StepChangesOnlyByAnswer ==
  [][(reviewStep' # reviewStep /\ event'.op # "reviewDone") =>
       /\ event'.op = "answer"
       /\ reviewData # Null
       /\ activePage = "dialogue"
       /\ event'.line <= reviewStep
       /\ event'.line < Len(reviewData.dialogue)
       /\ IsExercise(reviewData.dialogue[event'.line + 1])]_vars

\* A review of several lines whose first line is spoken by the assistant:
\* the user has acted on the dialogue page and the step index is still 0.
C27_Witness ==
  /\ event.op = "playTTS"
  /\ activePage = "dialogue"
  /\ reviewData # Null
  /\ Len(reviewData.dialogue) >= 2
  /\ reviewData.dialogue[1].speaker = "Xiao Tong"
  /\ reviewStep = 0

\* C28: review mode is left only by the exit action, and only in a state
\* where the step index equals length(dialogue) - 1; in every other review
\* state, a session with an empty dialogue included, no step leads back
\* to free chat.
C28_ExitOnlyAtLastLine ==
  [][(reviewData # Null /\ reviewData' = Null) =>
       /\ event'.op = "exitReview"
       /\ activePage = "dialogue"
       /\ Len(reviewData.dialogue) >= 1
       /\ reviewStep = LastLine]_vars

\* A review has been exited from its last line, reached by an answer.
C28_Witness ==
  /\ event.op = "exitReview"
  /\ reviewData = Null
  /\ reviewStep >= 1

\* A session with an empty dialogue is shown on the dialogue page.
C28_WitnessEmpty ==
  /\ activePage = "dialogue"
  /\ reviewData # Null
  /\ Len(reviewData.dialogue) = 0
  /\ event.op = "nav"

(***************************************************************************)
(* Etymology.                                                              *)
(***************************************************************************)
Radicals == <<"ren", "kou", "mu", "shui">>

Component(char) == [char |-> char, imageUrl |-> FALSE]

\* The parsed primary results of getEtymology: a JSON object with or
\* without the components key.
EtymValue(has, comps) == [hasComponents |-> has, components |-> comps]

EtymValues ==
  {EtymValue(TRUE, [j \in 1..n |-> Component(Radicals[j])]) :
     n \in 0..MaxComponents}

EtymResponses ==
  {Unreachable, AbsentText, NotJson} \cup {Json(v) : v \in EtymValues}

\* fetchEtymology(word) up to its await.
fetchEtymology(word) ==
  /\ loading' = TRUE
  /\ inflight' = Append(inflight, [Call("etym") EXCEPT !.word = word])

\* The click handler fetching the first word of the list, whichever
\* word was clicked.
WordClickFirst ==
  \E n \in 1..Len(recommendedWords) :
    /\ ~crashed
    /\ activePage = "recommendation"
    /\ CanIssue
    /\ fetchEtymology(recommendedWords[1].word)
    /\ event' =
         [Event("wordClick", 0, recommendedWords[n].word, "none") EXCEPT
            !.req = [word |-> recommendedWords[n].word, settled |-> "pending"]]
    /\ UNCHANGED <<activePage, nativeLang, level, recommendedWords,
                   currentEtymology, vocabulary, reviewData, reviewAnswers,
                   reviewStep, chatHistory, imageResult, capturedImage,
                   unhandled, crashed>>

\* A click on a recommended word.
WordClick ==
  \E n \in 1..Len(recommendedWords) :
    /\ ~crashed
    /\ activePage = "recommendation"
    /\ CanIssue
    /\ fetchEtymology(recommendedWords[n].word)
    /\ event' =
         [Event("wordClick", 0, recommendedWords[n].word, "none") EXCEPT
            !.req = [word |-> recommendedWords[n].word, settled |-> "pending"]]
    /\ UNCHANGED <<activePage, nativeLang, level, recommendedWords,
                   currentEtymology, vocabulary, reviewData, reviewAnswers,
                   reviewStep, chatHistory, imageResult, capturedImage,
                   unhandled, crashed>>

\* The etymology page maps over currentEtymology.data.components: the
\* render throws when the key is missing.
EtymologyRenderThrows(page, etym) ==
  page = "etymology" /\ etym # Null /\ ~etym.data.hasComponents

\* fetchEtymology after its await resolved with data.
EtymResolved(k, data, resp) ==
  /\ currentEtymology' = [word |-> inflight[k].word, data |-> data]
  /\ activePage' = "etymology"
  /\ loading' = FALSE
  /\ crashed' = (crashed \/ EtymologyRenderThrows(activePage', currentEtymology'))
  /\ inflight' = Remove(inflight, k)
  /\ event' = [EvResp("etymDone", resp) EXCEPT !.req = Settled(k, "done")]
  /\ UNCHANGED <<nativeLang, level, recommendedWords, vocabulary, reviewData,
                 reviewAnswers, reviewStep, chatHistory, imageResult,
                 capturedImage, unhandled>>

\* The catch path also dropping the etymology held.
EtymRejectedClears(k, resp) ==
  /\ loading' = FALSE
  /\ currentEtymology' = Null
  /\ inflight' = Remove(inflight, k)
  /\ event' = [EvResp("etymFailed", resp) EXCEPT !.req = Settled(k, "failed")]
  /\ UNCHANGED <<activePage, nativeLang, level, recommendedWords, vocabulary,
                 reviewData, reviewAnswers, reviewStep, chatHistory, imageResult,
                 capturedImage, unhandled, crashed>>

\* fetchEtymology after its await rejected: catch, finally.
EtymRejected(k, resp) ==
  /\ loading' = FALSE
  /\ inflight' = Remove(inflight, k)
  /\ event' = [EvResp("etymFailed", resp) EXCEPT !.req = Settled(k, "failed")]
  /\ UNCHANGED <<activePage, nativeLang, level, recommendedWords,
                 currentEtymology, vocabulary, reviewData, reviewAnswers,
                 reviewStep, chatHistory, imageResult, capturedImage, unhandled,
                 crashed>>

\* getEtymology after its primary call: JSON.parse(response.text || "{}"),
\* then, if (data.components), one image call per component in order.
EtymRespond ==
  \E k \in 1..Len(inflight), resp \in EtymResponses :
    /\ inflight[k].kind = "etym"
    /\ inflight[k].idx = 0
    /\ LET r == ParseOr(resp, EtymValue(FALSE, <<>>)) IN
         IF r.threw
           THEN EtymRejected(k, RespKind(resp))
           ELSE IF r.value.hasComponents /\ Len(r.value.components) > 0
                  THEN /\ inflight' =
                            Replace(inflight, k,
                                    [inflight[k] EXCEPT
                                       !.data = r.value.components, !.idx = 1])
                       /\ event' = EvResp("etymPrimary", RespKind(resp))
                       /\ UNCHANGED <<appState, unhandled, crashed>>
                  ELSE EtymResolved(k, r.value, RespKind(resp))

\* The component-image call without its try / catch: a failure rejects
\* getEtymology.
EtymImageRespondFatal ==
  \E k \in 1..Len(inflight), outcome \in {"image", "noimage", "failed"} :
    /\ inflight[k].kind = "etym"
    /\ inflight[k].idx > 0
    /\ LET c == inflight[k]
           comps == [c.data EXCEPT ![c.idx].imageUrl = (outcome = "image")]
       IN IF outcome = "failed"
            THEN EtymRejected(k, outcome)
            ELSE IF c.idx < Len(comps)
              THEN /\ inflight' =
                        Replace(inflight, k,
                                [c EXCEPT !.data = comps, !.idx = c.idx + 1])
                   /\ event' = EvResp("etymImage", outcome)
                   /\ UNCHANGED <<appState, unhandled, crashed>>
              ELSE EtymResolved(k, EtymValue(TRUE, comps), outcome)

\* One component-image call of getEtymology settles: the image is attached
\* when a part carries inline data; a failure is caught and logged.
EtymImageRespond ==
  \E k \in 1..Len(inflight), outcome \in {"image", "noimage", "failed"} :
    /\ inflight[k].kind = "etym"
    /\ inflight[k].idx > 0
    /\ LET c == inflight[k]
           comps == [c.data EXCEPT ![c.idx].imageUrl = (outcome = "image")]
       IN IF c.idx < Len(comps)
            THEN /\ inflight' =
                      Replace(inflight, k,
                              [c EXCEPT !.data = comps, !.idx = c.idx + 1])
                 /\ event' = EvResp("etymImage", outcome)
                 /\ UNCHANGED <<appState, unhandled, crashed>>
            ELSE EtymResolved(k, EtymValue(TRUE, comps), outcome)

(***************************************************************************)
(* Specification of the three fetches that set the loading flag from the   *)
(* recommendation and vocabulary pages.                                    *)
(***************************************************************************)
FetchPages == Pages

ShortDialogues == SeqsUpTo(PlainLines, 1)

NextFetch ==
  \/ Navigate(FetchPages)
  \/ RefreshClick
  \/ RecRespond(RecResponses)
  \/ WordClick
  \/ EtymRespond
  \/ EtymImageRespond
  \/ ReviewStartClick
  \/ ReviewRespond(ShortDialogues)

SpecFetch == Init /\ [][NextFetch]_vars

\* The Model Gateway operations in flight.
GatewayCalls == {k \in 1..Len(inflight) : inflight[k].kind # "read"}

\* C6: the loading flag is true in every state in which at least one Model
\* Gateway call is in flight.
C6_LoadingWhileInflight == GatewayCalls # {} => loading

\* C7: when a recommendation, etymology or review fetch fails, the loading
\* flag becomes false and no other state of the component changes; no view
\* transition occurs.
C7_FailureLeavesState ==
  [][event'.op \in {"recFailed", "etymFailed", "reviewFailed"} =>
       /\ loading' = FALSE
       /\ UNCHANGED <<activePage, nativeLang, level, recommendedWords,
                      currentEtymology, vocabulary, reviewData, reviewAnswers,
                      reviewStep, chatHistory, imageResult, capturedImage>>
       /\ UNCHANGED <<unhandled, crashed>>
       /\ Len(inflight') = Len(inflight) - 1]_vars

\* An etymology fetch has failed on the recommendation page while words and
\* an earlier etymology were held.
C7_Witness ==
  /\ event.op = "etymFailed"
  /\ activePage = "recommendation"
  /\ recommendedWords # <<>>
  /\ currentEtymology # Null
  /\ ~loading

\* C10: a primary response that is absent, empty or not of the expected
\* shape is handled like an unreachable backend: recommendedWords,
\* currentEtymology, reviewData and the active page stay as they were.
C10_MalformedFailsClosed ==
  [][event'.resp \in {"absent", "garbage"} =>
       UNCHANGED <<activePage, recommendedWords, currentEtymology,
                   reviewData>>]_vars

\* C16: a click on a recommended word issues exactly one etymology fetch,
\* whose argument is that word's text; when the fetch succeeds,
\* currentEtymology becomes the pair of that word and the fetched data and
\* the active page becomes etymology.
C16_WordClickFetchesEtymology ==
  [][/\ event'.op = "wordClick" =>
          /\ Len(inflight') = Len(inflight) + 1
          /\ SubSeq(inflight', 1, Len(inflight)) = inflight
          /\ inflight'[Len(inflight')].kind = "etym"
          /\ inflight'[Len(inflight')].word = event'.word
          /\ \E n \in 1..Len(recommendedWords) :
               recommendedWords[n].word = event'.word
     /\ event'.op = "etymDone" =>
          \E k \in 1..Len(inflight) :
            /\ inflight[k].kind = "etym"
            /\ inflight' = Remove(inflight, k)
            /\ currentEtymology' # Null
            /\ currentEtymology'.word = inflight[k].word
            /\ inflight[k].idx > 0 =>
                 /\ currentEtymology'.data.hasComponents
                 /\ Len(currentEtymology'.data.components) = Len(inflight[k].data)
                 /\ \A j \in 1..Len(inflight[k].data) :
                      currentEtymology'.data.components[j].char =
                        inflight[k].data[j].char
            /\ activePage' = "etymology"]_vars

\* The etymology of the second recommended word has been fetched and is
\* shown.
C16_Witness ==
  /\ event.op = "etymDone"
  /\ activePage = "etymology"
  /\ currentEtymology # Null
  /\ currentEtymology.word = Catalogue[2].word
  /\ currentEtymology.data.hasComponents
  /\ Len(currentEtymology.data.components) >= 1
  /\ ~crashed

\* The page an etymology or review fetch is started from.
OwnerPage(op) == IF op = "etymDone" THEN "recommendation" ELSE "vocabulary"

\* C17: an etymology or review fetch that completes after the user has
\* left the page it was started from never changes the active page.
C17_LateCompletionKeepsPage ==
  [][(event'.op \in {"etymDone", "reviewDone"}
       /\ activePage # OwnerPage(event'.op)) =>
       activePage' = activePage]_vars

\* The turns that run a handler of a user action (the read of an uploaded
\* file completing belongs to the upload).
UserOps ==
  {"refresh", "wordClick", "startReview", "upload", "loadEnd", "chatSubmit",
   "nav"}

\* C20: no retry is performed: a gateway operation is issued only in the
\* turn of a user action (a navigation issues one only onto the
\* recommendation page); the turn in which a fetch fails removes that call
\* and issues none, and after a failed image call the same item is not
\* attempted again.
C20_NoRetry ==
  [][/\ Cardinality(GatewayCalls') > Cardinality(GatewayCalls) =>
          /\ event'.op \in UserOps
          /\ Cardinality(GatewayCalls') = Cardinality(GatewayCalls) + 1
          /\ event'.op = "nav" =>
               /\ activePage' = "recommendation"
               /\ inflight'[Len(inflight')].kind = "rec"
     /\ event'.op \in {"recFailed", "etymFailed", "reviewFailed"} =>
          \E k \in 1..Len(inflight) : inflight' = Remove(inflight, k)
     /\ event'.resp = "failed" =>
          \/ \E k \in 1..Len(inflight) : inflight' = Remove(inflight, k)
          \/ /\ Len(inflight') = Len(inflight)
             /\ \A k \in 1..Len(inflight) :
                  \/ inflight'[k] = inflight[k]
                  \/ inflight'[k].idx > inflight[k].idx]_vars

\* The recommendation fetch has failed on the recommendation page: the
\* list is still empty and nothing is in flight.
C20_Witness ==
  /\ event.op = "recFailed"
  /\ activePage = "recommendation"
  /\ recommendedWords = <<>>
  /\ inflight = <<>>
  /\ ~loading

\* C21: every word stored in recommendedWords has a proficiency within
\* 0 .. 100, whatever number the backend returns.
C21_ProficiencyInRange ==
  \A n \in 1..Len(recommendedWords) :
    /\ recommendedWords[n].proficiency >= 0
    /\ recommendedWords[n].proficiency <= 100

\* The review-dialogue generation calls in flight.
ReviewCalls == {k \in 1..Len(inflight) : inflight[k].kind = "review"}

\* C24: at most one review-dialogue generation call is in flight at any
\* time.
C24_OneReviewFetch == Cardinality(ReviewCalls) <= 1

\* Whether the step issues a recommendation fetch.
IssuesRecFetch ==
  /\ Len(inflight') = Len(inflight) + 1
  /\ inflight'[Len(inflight')].kind = "rec"

\* C29: a recommendation fetch is issued automatically exactly when the
\* active page becomes recommendation, or is recommendation at the start,
\* while recommendedWords is empty: the first state has the fetch in
\* flight, the page becoming recommendation issues a fetch if and only if
\* the list is empty, and any other fetch comes from the refresh button.
C29_AutoFetchOnEmptyList ==
  /\ (activePage = "recommendation" /\ Len(recommendedWords) = 0) =>
       (Len(inflight) = 1 /\ inflight[1].kind = "rec" /\ loading)
  /\ [][/\ (activePage # "recommendation" /\ activePage' = "recommendation") =>
             (IssuesRecFetch <=> Len(recommendedWords) = 0)
        /\ IssuesRecFetch =>
             \/ event'.op = "refresh"
             \/ /\ event'.op = "nav"
                /\ activePage # "recommendation"
                /\ activePage' = "recommendation"
                /\ Len(recommendedWords) = 0]_vars

\* The user has come back to the recommendation page with a list held:
\* nothing is fetched.
C29_Witness ==
  /\ event.op = "nav"
  /\ activePage = "recommendation"
  /\ recommendedWords # <<>>
  /\ inflight = <<>>
  /\ ~loading

\* The user has come back to the recommendation page with no list held:
\* the fetch is in flight.
C29_WitnessEmpty ==
  /\ event.op = "nav"
  /\ activePage = "recommendation"
  /\ recommendedWords = <<>>
  /\ Len(inflight) = 1
  /\ inflight[1].kind = "rec"
  /\ loading

\* The calls in flight that have set the loading flag.
FlagCalls ==
  {k \in 1..Len(inflight) :
     inflight[k].kind \in {"rec", "etym", "review", "image"}}

\* C30: whenever the loading flag is true, a call that set it is still in
\* flight; once every started call has settled, the flag is false.
C30_LoadingImpliesInflight == loading => FlagCalls # {}

\* Two overlapping fetches have both settled, the last one by failing.
C30_Witness ==
  /\ event.op = "etymFailed"
  /\ inflight = <<>>
  /\ ~loading
  /\ recommendedWords # <<>>

(***************************************************************************)
(* Specification of overlapping etymology fetches.                         *)
(***************************************************************************)
OverlapPages == {"recommendation", "etymology"}

OverlapRecResponses == {Json(SubSeq(Catalogue, 1, MaxRecLen))}

NextOverlap ==
  \/ Navigate(OverlapPages)
  \/ RecRespond(OverlapRecResponses)
  \/ WordClick
  \/ EtymRespond
  \/ EtymImageRespond

SpecOverlap == Init /\ [][NextOverlap]_vars

\* C25: when etymology fetches overlap, once all of them have settled and
\* the one requested last has succeeded, the etymology held is the one of
\* the word requested last, in whatever order the responses arrived.
C25_LatestRequestWins ==
  (EtymCalls = {} /\ event.req.settled = "done") =>
    (currentEtymology # Null /\ currentEtymology.word = event.req.word)

(***************************************************************************)
(* The selectors of the native language and of the level.                  *)
(***************************************************************************)
NativeLangs == {"English", "German", "French", "Japanese"}

Levels == {"HSK 1", "HSK 2", "HSK 3", "HSK 4"}

\* The selector that also fetches the recommendations again.
SetNativeLangRefetch ==
  \E lang \in NativeLangs :
    /\ ~crashed
    /\ lang # nativeLang
    /\ CanIssue
    /\ nativeLang' = lang
    /\ loading' = TRUE
    /\ inflight' =
         Append(inflight, [Call("rec") EXCEPT !.lang = lang, !.level = level])
    /\ event' = Ev("setLang")
    /\ UNCHANGED <<activePage, level, recommendedWords, currentEtymology,
                   vocabulary, reviewData, reviewAnswers, reviewStep,
                   chatHistory, imageResult, capturedImage, unhandled, crashed>>

\* onChange of the language selector: setNativeLang(e.target.value).
SetNativeLang ==
  \E lang \in NativeLangs :
    /\ ~crashed
    /\ lang # nativeLang
    /\ nativeLang' = lang
    /\ event' = Ev("setLang")
    /\ UNCHANGED <<activePage, level, loading, recommendedWords,
                   currentEtymology, vocabulary, reviewData, reviewAnswers,
                   reviewStep, chatHistory, imageResult, capturedImage,
                   inflight, unhandled, crashed>>

\* onChange of the level selector: setLevel(e.target.value).
SetLevel ==
  \E lv \in Levels :
    /\ ~crashed
    /\ lv # level
    /\ level' = lv
    /\ event' = Ev("setLevel")
    /\ UNCHANGED <<activePage, nativeLang, loading, recommendedWords,
                   currentEtymology, vocabulary, reviewData, reviewAnswers,
                   reviewStep, chatHistory, imageResult, capturedImage,
                   inflight, unhandled, crashed>>

SettingsPages == {"recommendation", "vocabulary"}

NextSettings ==
  \/ Navigate(SettingsPages)
  \/ RefreshClick
  \/ RecRespond(ReviewRecResponses)
  \/ SetNativeLang
  \/ SetLevel
  \/ ToggleWordSelection

SpecSettings == Init /\ [][NextSettings]_vars

\* C22: changing the native language or the level issues no gateway call
\* and leaves recommendedWords, currentEtymology, vocabulary, the review
\* state and the chat history unchanged; a recommendation fetch carries
\* the language and the level that are current when it is started.
C22_SelectorsOnlyAffectLaterFetches ==
  [][/\ event'.op \in {"setLang", "setLevel"} =>
          /\ nativeLang' # nativeLang \/ level' # level
          /\ UNCHANGED <<inflight, loading, activePage, recommendedWords,
                         currentEtymology, vocabulary, reviewData,
                         reviewAnswers, reviewStep, chatHistory>>
     /\ IssuesRecFetch =>
          /\ inflight'[Len(inflight')].lang = nativeLang'
          /\ inflight'[Len(inflight')].level = level'
          /\ UNCHANGED <<nativeLang, level>>
     /\ \A k \in 1..Len(inflight) :
          (Len(inflight') >= Len(inflight) /\ inflight[k].kind = "rec") =>
            inflight'[k] = inflight[k]]_vars

\* A fetch started after both selectors were changed is in flight behind
\* a fetch started before, each with the values of its start.
C22_Witness ==
  /\ event.op = "refresh"
  /\ Len(inflight) = 2
  /\ inflight[1].lang = "English"
  /\ inflight[1].level = "HSK 3"
  /\ inflight[2].lang = "German"
  /\ inflight[2].level = "HSK 1"
  /\ nativeLang = "German"
  /\ level = "HSK 1"

(***************************************************************************)
(* Specification of the dependent image calls: the component images of an  *)
(* etymology and the hint images of a review dialogue.                     *)
(***************************************************************************)
\* Lines carrying a hint-image prompt: an exercise line, for which the
\* image is generated, and an assistant line, for which it is not.
HintLines ==
  {Line("User", SeedVocabulary[1], TRUE), Line("Xiao Tong", NoWord, TRUE)}

\* The dialogues of such lines that the assistant opens.
HintDialogues ==
  {d \in SeqsUpTo(HintLines, MaxDialogueLen) :
     Len(d) > 0 => d[1].speaker = "Xiao Tong"}

HintPages == {"recommendation", "vocabulary"}

NextDependent ==
  \/ Navigate(HintPages)
  \/ RecRespond(ReviewRecResponses)
  \/ WordClick
  \/ EtymRespond
  \/ EtymImageRespond
  \/ ReviewStartClick
  \/ ReviewRespond(HintDialogues)
  \/ ReviewHintRespond

SpecDependent == Init /\ [][NextDependent]_vars

\* Whether item j of the items a suspended call holds carries an image.
HasImage(kind, items, j) ==
  IF kind = "etym" THEN items[j].imageUrl ELSE items[j].hintImageUrl

\* Whether an image call is made for item j.
NeedsImage(kind, items, j) ==
  kind = "etym" \/ (items[j].blankWord # NoWord /\ items[j].hintImagePrompt)

\* The items after the settling of the image call of item n without an
\* image: the same items, item n without image, nothing else touched.
SameItemsWithout(kind, old, new, n) ==
  /\ Len(new) = Len(old)
  /\ ~HasImage(kind, new, n)
  /\ \A j \in 1..Len(old) :
       IF kind = "etym"
         THEN new[j].char = old[j].char /\ (j # n => new[j] = old[j])
         ELSE /\ new[j].speaker = old[j].speaker
              /\ new[j].blankWord = old[j].blankWord
              /\ (j # n => new[j] = old[j])

\* C11: a failure of a dependent image call (of an etymology component, of
\* a review hint) never fails the parent operation: the parent goes on to
\* the image call of the next item that needs one, or, after the last one,
\* delivers the parent object with every component or line present and the
\* failed item without an image.
C11_ImageFailureNotFatal ==
  [][event'.resp = "failed" =>
       /\ event'.op \notin {"etymFailed", "reviewFailed"}
       /\ \E k \in 1..Len(inflight) :
            LET c == inflight[k] IN
              /\ c.kind \in {"etym", "review"}
              /\ c.idx > 0
              /\ \/ /\ Len(inflight') = Len(inflight)
                    /\ inflight'[k].kind = c.kind
                    /\ inflight'[k].idx > c.idx
                    /\ inflight'[k].idx <= Len(c.data)
                    /\ NeedsImage(c.kind, c.data, inflight'[k].idx)
                    /\ \A j \in (c.idx + 1)..(inflight'[k].idx - 1) :
                         ~NeedsImage(c.kind, c.data, j)
                    /\ SameItemsWithout(c.kind, c.data, inflight'[k].data, c.idx)
                    /\ UNCHANGED appState
                 \/ /\ inflight' = Remove(inflight, k)
                    /\ \A j \in (c.idx + 1)..Len(c.data) :
                         ~NeedsImage(c.kind, c.data, j)
                    /\ IF c.kind = "etym"
                         THEN /\ currentEtymology' # Null
                              /\ currentEtymology'.word = c.word
                              /\ currentEtymology'.data.hasComponents
                              /\ SameItemsWithout("etym", c.data,
                                       currentEtymology'.data.components, c.idx)
                         ELSE /\ reviewData' # Null
                              /\ SameItemsWithout("review", c.data,
                                       reviewData'.dialogue, c.idx)]_vars

\* An etymology has been delivered whose first component image failed and
\* whose second one arrived.
C11_Witness ==
  /\ event.op = "etymDone"
  /\ currentEtymology # Null
  /\ currentEtymology.data.hasComponents
  /\ Len(currentEtymology.data.components) = 2
  /\ ~currentEtymology.data.components[1].imageUrl
  /\ currentEtymology.data.components[2].imageUrl

\* A review dialogue has been delivered after the image call of its last
\* hint failed.
C11_WitnessReview ==
  /\ event.op = "reviewDone"
  /\ event.resp = "failed"
  /\ reviewData # Null
  /\ Len(reviewData.dialogue) >= 2

\* The items of the object a step delivers for an operation of a kind.
Delivered(kind) ==
  IF kind = "etym"
    THEN IF currentEtymology'.data.hasComponents
           THEN currentEtymology'.data.components
           ELSE <<>>
    ELSE reviewData'.dialogue

\* Whether the step delivers the result of call k, or fails it.
Delivers(k) ==
  /\ event'.op = (IF inflight[k].kind = "etym" THEN "etymDone" ELSE "reviewDone")
  /\ inflight' = Remove(inflight, k)

Fails(k) ==
  /\ event'.op = (IF inflight[k].kind = "etym" THEN "etymFailed" ELSE "reviewFailed")
  /\ inflight' = Remove(inflight, k)

\* Whether the step moves call k to another image call.
Moves(k) == Len(inflight') = Len(inflight) /\ inflight'[k].idx # inflight[k].idx

\* C23 as stated: an operation issues one image call per returned
\* component, or per dialogue line, one at a time in item order: the image
\* call awaited moves from each item to the next one, the object is
\* delivered after the image call of the last item, and no image call is
\* issued when the primary call fails.
C23_OneImageCallPerItem ==
  [][\A k \in 1..Len(inflight) :
       inflight[k].kind \in {"etym", "review"} =>
         /\ Moves(k) => inflight'[k].idx = inflight[k].idx + 1
         /\ Delivers(k) => inflight[k].idx = Len(Delivered(inflight[k].kind))
         /\ Fails(k) => inflight[k].idx = 0]_vars

\* C23 as amended: an etymology issues one image call per returned
\* component, a review one image call per dialogue line that has both a
\* blank target and a hint prompt and none for the other lines, one at a
\* time in item order; no image call is issued when the primary call
\* fails.
C23_OneImageCallPerHintedItem ==
  [][\A k \in 1..Len(inflight) :
       LET c == inflight[k] IN
         c.kind \in {"etym", "review"} =>
           /\ Moves(k) =>
                /\ inflight'[k].idx > c.idx
                /\ inflight'[k].idx <= Len(inflight'[k].data)
                /\ NeedsImage(c.kind, inflight'[k].data, inflight'[k].idx)
                /\ \A j \in (c.idx + 1)..(inflight'[k].idx - 1) :
                     ~NeedsImage(c.kind, inflight'[k].data, j)
           /\ Delivers(k) =>
                \A j \in (c.idx + 1)..Len(Delivered(c.kind)) :
                  ~NeedsImage(c.kind, Delivered(c.kind), j)
           /\ Fails(k) => c.idx = 0]_vars

\* A review dialogue of three lines has been delivered: the assistant line
\* without image call, the two exercise lines with their hint images.
C23_Witness ==
  /\ event.op = "reviewDone"
  /\ reviewData # Null
  /\ Len(reviewData.dialogue) = 3
  /\ ~reviewData.dialogue[1].hintImageUrl
  /\ reviewData.dialogue[2].hintImageUrl
  /\ reviewData.dialogue[3].hintImageUrl

(***************************************************************************)
(* Free chat.                                                              *)
(***************************************************************************)
ChatInputs == {"nihao", "xiexie"}

Turn(role, text) == [role |-> role, text |-> text]

PendingChats == {k \in 1..Len(inflight) : inflight[k].kind = "chat"}

\* What the backend can answer to getDialogueResponse: the transport
\* fails, or a response arrives with or without text.
ChatResponses == {Unreachable, AbsentText, Json("reply")}

\* The contents getDialogueResponse sends: history.map(...) turns every
\* role but "user" into "model", then the new user text is pushed.
contents(history, userInput) ==
  [j \in 1..(Len(history) + 1) |->
     IF j <= Len(history)
       THEN [role |-> IF history[j].role = "user" THEN "user" ELSE "model",
             text |-> history[j].text]
       ELSE [role |-> "user", text |-> userInput]]

\* getDialogueResponse(history, userInput) up to its await.
getDialogueResponse(history, userInput) ==
  [Call("chat") EXCEPT !.history = contents(history, userInput),
                       !.val = userInput]

\* The onKeyDown that does not show the user turn before the reply.
ChatSubmitDeferred ==
  \E val \in ChatInputs :
    /\ ~crashed
    /\ activePage = "dialogue"
    /\ reviewData = Null
    /\ CanIssue
    /\ Len(chatHistory) + Cardinality(PendingChats) + 2 <= MaxChat
    /\ inflight' = Append(inflight, getDialogueResponse(chatHistory, val))
    /\ event' = Event("chatSubmit", 0, val, "none")
    /\ UNCHANGED <<appState, unhandled, crashed>>

\* The onKeyDown passing the history that already holds the new user turn.
ChatSubmitUpdated ==
  \E val \in ChatInputs :
    /\ ~crashed
    /\ activePage = "dialogue"
    /\ reviewData = Null
    /\ CanIssue
    /\ Len(chatHistory) + Cardinality(PendingChats) + 2 <= MaxChat
    /\ chatHistory' = Append(chatHistory, Turn("user", val))
    /\ inflight' = Append(inflight, getDialogueResponse(chatHistory', val))
    /\ event' = Event("chatSubmit", 0, val, "none")
    /\ UNCHANGED <<activePage, nativeLang, level, loading, recommendedWords,
                   currentEtymology, vocabulary, reviewData, reviewAnswers,
                   reviewStep, imageResult, capturedImage, unhandled, crashed>>

\* onKeyDown of the chat input with Enter and a non-empty value: the user
\* turn is appended, then the handler awaits the reply.  The history
\* passed is the one of the render the handler belongs to.
ChatSubmit ==
  \E val \in ChatInputs :
    /\ ~crashed
    /\ activePage = "dialogue"
    /\ reviewData = Null
    /\ CanIssue
    /\ Len(chatHistory) + Cardinality(PendingChats) + 2 <= MaxChat
    /\ chatHistory' = Append(chatHistory, Turn("user", val))
    /\ inflight' = Append(inflight, getDialogueResponse(chatHistory, val))
    /\ event' = Event("chatSubmit", 0, val, "none")
    /\ UNCHANGED <<activePage, nativeLang, level, loading, recommendedWords,
                   currentEtymology, vocabulary, reviewData, reviewAnswers,
                   reviewStep, imageResult, capturedImage, unhandled, crashed>>

\* The continuation appending the reply to the history of the render the
\* handler belongs to: setChatHistory([...chatHistory, reply]).
ChatRespondStale ==
  \E k \in 1..Len(inflight), resp \in ChatResponses :
    /\ inflight[k].kind = "chat"
    /\ inflight' = Remove(inflight, k)
    /\ IF resp.net = "unreachable"
         THEN /\ unhandled' = TRUE
              /\ event' = EvResp("chatFailed", RespKind(resp))
              /\ UNCHANGED chatHistory
         ELSE /\ chatHistory' =
                   Append(SubSeq(chatHistory, 1, Len(inflight[k].history) - 1),
                          Turn("ai", IF resp.text = "absent" THEN "" ELSE resp.json))
              /\ event' = EvResp("chatDone", RespKind(resp))
              /\ UNCHANGED unhandled
    /\ UNCHANGED <<activePage, nativeLang, level, loading, recommendedWords,
                   currentEtymology, vocabulary, reviewData, reviewAnswers,
                   reviewStep, imageResult, capturedImage, crashed>>

\* The chat handler after its await: no try / catch surrounds the call, so
\* a rejection leaves the handler as an unhandled rejection; otherwise the
\* reply (response || '') is appended.
ChatRespond ==
  \E k \in 1..Len(inflight), resp \in ChatResponses :
    /\ inflight[k].kind = "chat"
    /\ inflight' = Remove(inflight, k)
    /\ IF resp.net = "unreachable"
         THEN /\ unhandled' = TRUE
              /\ event' = EvResp("chatFailed", RespKind(resp))
              /\ UNCHANGED chatHistory
         ELSE /\ chatHistory' =
                   Append(chatHistory,
                          Turn("ai", IF resp.text = "absent" THEN "" ELSE resp.json))
              /\ event' = EvResp("chatDone", RespKind(resp))
              /\ UNCHANGED unhandled
    /\ UNCHANGED <<activePage, nativeLang, level, loading, recommendedWords,
                   currentEtymology, vocabulary, reviewData, reviewAnswers,
                   reviewStep, imageResult, capturedImage, crashed>>

\* The pages the user visits here; the review started from the vocabulary
\* page switches the dialogue page between free chat and review mode.
ChatPages == {"recommendation", "vocabulary", "dialogue", "translation"}

NextChat ==
  \/ Navigate(ChatPages)
  \/ RecRespond(ReviewRecResponses)
  \/ ChatSubmit
  \/ ChatRespond
  \/ ReviewStartClick
  \/ ReviewRespond(ShortDialogues)
  \/ ExitReview

SpecChat == Init /\ [][NextChat]_vars

\* C9: no backend failure escapes the handler that awaits the call,
\* including the free-chat call.
C9_NoUnhandledRejection == ~unhandled

\* C12: a submission of non-empty text appends exactly one user turn at
\* once, before the call settles; when the call resolves, exactly one
\* assistant turn is appended, behind that user turn; after a single
\* submission on an empty history the history is the user turn followed by
\* the assistant turn.
C12_SubmitThenReply ==
  [][/\ event'.op = "chatSubmit" =>
          /\ chatHistory' = Append(chatHistory, Turn("user", event'.word))
          /\ Cardinality(PendingChats') = Cardinality(PendingChats) + 1
     /\ event'.op = "chatDone" =>
          \E k \in PendingChats :
            LET at == Len(inflight[k].history) IN
              /\ inflight' = Remove(inflight, k)
              /\ Len(chatHistory') = Len(chatHistory) + 1
              /\ SubSeq(chatHistory', 1, Len(chatHistory)) = chatHistory
              /\ chatHistory'[Len(chatHistory')].role = "ai"
              /\ at <= Len(chatHistory)
              /\ chatHistory'[at] = Turn("user", inflight[k].val)
              /\ (Len(chatHistory) = 1 /\ Cardinality(PendingChats) = 1) =>
                   /\ Len(chatHistory') = 2
                   /\ chatHistory'[1] = Turn("user", inflight[k].val)
                   /\ chatHistory'[2].role = "ai"]_vars

\* The reply to a single submission on an empty history has arrived.
C12_Witness ==
  /\ event.op = "chatDone"
  /\ Len(chatHistory) = 2
  /\ chatHistory[1] = Turn("user", "nihao")
  /\ chatHistory[2] = Turn("ai", "reply")
  /\ PendingChats = {}

IsPrefix(s, t) == Len(s) <= Len(t) /\ SubSeq(t, 1, Len(s)) = s

\* C13: the chat history is append-only: in every step the old history is
\* a prefix of the new one.
C13_AppendOnly == [][IsPrefix(chatHistory, chatHistory')]_vars

\* The reply to one of two overlapping submissions has arrived after the
\* user left the dialogue page.
C13_Witness ==
  /\ event.op = "chatDone"
  /\ Len(chatHistory) = 3
  /\ chatHistory[2].role = "user"
  /\ PendingChats # {}
  /\ activePage # "dialogue"

\* A reply has arrived while the dialogue page was in review mode.
C13_WitnessReviewMode ==
  /\ event.op = "chatDone"
  /\ reviewData # Null
  /\ Len(chatHistory) = 2

\* C14: the request of a submission holds every turn that was in the
\* history before the submission, in order, followed by the new user text
\* exactly once, also while an earlier reply is pending.
C14_RequestIsHistoryPlusInput ==
  [][event'.op = "chatSubmit" =>
       LET req == inflight'[Len(inflight')].history IN
         /\ inflight'[Len(inflight')].kind = "chat"
         /\ Len(req) = Len(chatHistory) + 1
         /\ \A j \in 1..Len(chatHistory) :
              /\ req[j].text = chatHistory[j].text
              /\ (req[j].role = "user") = (chatHistory[j].role = "user")
         /\ req[Len(req)] = [role |-> "user", text |-> event'.word]]_vars

\* A submission made while the reply to the previous one was pending.
C14_Witness ==
  /\ event.op = "chatSubmit"
  /\ Cardinality(PendingChats) = 2
  /\ Len(chatHistory) = 2
  /\ chatHistory[1].text # chatHistory[2].text

\* A submission made after a reply: its request holds a "model" turn.
C14_WitnessAfterReply ==
  /\ event.op = "chatSubmit"
  /\ Len(chatHistory) = 3
  /\ chatHistory[2].role = "ai"
  /\ inflight[Len(inflight)].history[2].role = "model"

(***************************************************************************)
(* Image recognition.                                                      *)
(***************************************************************************)
SampleImages == {"sample0", "sample1"}

UploadedImages == {"upload1", "upload2"}

\* A recognition result, as the text describing one image.
ResultOf(img) == [of |-> img]

\* A click on a sample scene: the image and its canned result.
SampleClick ==
  \E img \in SampleImages :
    /\ ~crashed
    /\ activePage = "recognition"
    /\ capturedImage' = img
    /\ imageResult' = ResultOf(img)
    /\ event' = Ev("sampleClick")
    /\ UNCHANGED <<activePage, nativeLang, level, loading, recommendedWords,
                   currentEtymology, vocabulary, reviewData, reviewAnswers,
                   reviewStep, chatHistory, inflight, unhandled, crashed>>

\* The close button of the result card, rendered while imageResult is set.
ClearImage ==
  /\ ~crashed
  /\ activePage = "recognition"
  /\ imageResult # Null
  /\ capturedImage' = NoImage
  /\ imageResult' = Null
  /\ event' = Ev("clearImage")
  /\ UNCHANGED <<activePage, nativeLang, level, loading, recommendedWords,
                 currentEtymology, vocabulary, reviewData, reviewAnswers,
                 reviewStep, chatHistory, inflight, unhandled, crashed>>

\* handleImageUpload: a file is chosen and its read is started.
handleImageUpload ==
  \E img \in UploadedImages :
    /\ ~crashed
    /\ activePage = "recognition"
    /\ CanIssue
    /\ inflight' = Append(inflight, [Call("read") EXCEPT !.img = img])
    /\ event' = Ev("upload")
    /\ UNCHANGED <<appState, unhandled, crashed>>

\* reader.onloadend up to its await: the image is shown, the flag set and
\* analyzeImage called.
ReaderLoadEnd ==
  \E k \in 1..Len(inflight) :
    /\ inflight[k].kind = "read"
    /\ capturedImage' = inflight[k].img
    /\ loading' = TRUE
    /\ inflight' = Replace(inflight, k, [inflight[k] EXCEPT !.kind = "image"])
    /\ event' = Ev("loadEnd")
    /\ UNCHANGED <<activePage, nativeLang, level, recommendedWords,
                   currentEtymology, vocabulary, reviewData, reviewAnswers,
                   reviewStep, chatHistory, imageResult, unhandled, crashed>>

\* What the backend can answer to analyzeImage.
ImageResponses == {Unreachable, AbsentText, Json("text")}

\* reader.onloadend after its await: the describing text (or undefined) is
\* stored, a failure is caught; finally the flag is cleared.
ImageRespond ==
  \E k \in 1..Len(inflight), resp \in ImageResponses :
    /\ inflight[k].kind = "image"
    /\ imageResult' =
         IF resp.net = "unreachable" THEN imageResult
         ELSE IF resp.text = "absent" THEN Null
         ELSE ResultOf(inflight[k].img)
    /\ loading' = FALSE
    /\ inflight' = Remove(inflight, k)
    /\ event' =
         EvResp(IF resp.net = "unreachable" THEN "imageFailed" ELSE "imageDone",
                RespKind(resp))
    /\ UNCHANGED <<activePage, nativeLang, level, recommendedWords,
                   currentEtymology, vocabulary, reviewData, reviewAnswers,
                   reviewStep, chatHistory, capturedImage, unhandled, crashed>>

NextImage ==
  \/ Navigate(Pages)
  \/ RecRespond(RecResponses)
  \/ SampleClick
  \/ ClearImage
  \/ handleImageUpload
  \/ ReaderLoadEnd
  \/ ImageRespond

SpecImage == Init /\ [][NextImage]_vars

\* C8: when the image analysis started by an upload fails, the loading flag
\* is cleared and the captured image and the recognition result are the
\* pair they were before the upload, so that a displayed result belongs to
\* the displayed image.
C8_FailedAnalysisKeepsPair ==
  [][event'.op = "imageFailed" =>
       /\ loading' = FALSE
       /\ imageResult' # Null => imageResult'.of = capturedImage']_vars

====
